---- MODULE Spec2Model ----
(***************************************************************************)
(* ollama-cli: the interactive loop, its three key handlers, the           *)
(* background jobs they spawn and the streaming decoder.                   *)
(*                                                                         *)
(* Text (input buffer, search query, message content) is a sequence of    *)
(* one-character strings.  Option<T> is a sequence of length at most one:  *)
(* None is <<>> and Some(x) is <<x>>.                                      *)
(***************************************************************************)
EXTENDS Integers, Sequences, FiniteSets, Bags, TLC

VARIABLES
    state,         \* the AppState behind Arc<Mutex<..>>
    jobs,          \* bag of background jobs that were spawned and have not finished
    serverModels,  \* the models the local server has installed
    mainPc,        \* position of the interactive thread in run_app
    lines,         \* streaming decoder: the lines of the response body
    pos,           \* streaming decoder: number of lines consumed
    content,       \* streaming decoder: the accumulator
    calls,         \* streaming decoder: arguments the callback was invoked with
    dpc,           \* streaming decoder: "reading", "ok" (returned Ok(content)), "err"
    lock,          \* holder of the Mutex around AppState: "free", "main" or "job"
    dirty,         \* a job has written to AppState since the last frame was painted
    page,          \* catalog scan: the lines of the fetched page
    keyword,       \* catalog scan: the query (empty: the popular listing)
    found,         \* catalog scan: what the scan returned
    spc            \* catalog scan: "idle", "fetched", "done"

vars == <<state, jobs, serverModels, mainPc, lines, pos, content, calls, dpc,
          lock, dirty, page, keyword, found, spc>>
appVars == <<state, jobs, serverModels, mainPc>>
decVars == <<lines, pos, content, calls, dpc>>
loopVars == <<lock, dirty>>
scanVars == <<page, keyword, found, spc>>

\* ------------------------------------------------------------------ bounds
MaxInput == 1     \* longest input buffer / search query that is typed
MaxMsgs == 3      \* most chat turns of a conversation that is explored
MaxJobs == 2      \* most background jobs outstanding at once
MaxLines == 3     \* longest response body (in lines) fed to the decoder
MaxSyms == 5      \* longest line (in symbols) given to the catalog extractor
MaxHref == 4      \* longest href (in symbols) of the anchors given to it
MaxEntries == 80   \* most distinct entries of a catalog page
MaxFew == 1       \* most jobs outstanding, and most user turns, in the sessions that cap them

\* ------------------------------------------------------------------ values
None == <<>>
Some(x) == <<x>>
IsSome(o) == Len(o) = 1
Unwrap(o) == o[1]

TypedChars == {"x"}                       \* characters entered as text
CmdChars == {"i", "a", "j", "k", "G", "g", "d", "r"}
ErrText == "connection refused"            \* text of a request error
ReplyText == <<"o", "k">>                   \* content of the server's chat reply
CatalogLists == {<<>>, <<"x1">>, <<"x1", "x2">>}  \* lists a catalog resolve returns

Char(c) == [code |-> "Char", c |-> c]
Key(k) == [code |-> k, c |-> ""]
Keys == {Char(c) : c \in CmdChars \cup TypedChars}
        \cup {Key(k) : k \in {"Enter", "Esc", "Tab", "Backspace", "Up", "Down", "End", "Home"}}

ChatMessage(role, text) == [role |-> role, content |-> text]

Min(a, b) == IF a < b THEN a ELSE b
SatSub1(n) == IF n = 0 THEN 0 ELSE n - 1
Pop(s) == IF s = <<>> THEN s ELSE SubSeq(s, 1, Len(s) - 1)
RemoveAt(s, i) == SubSeq(s, 1, i - 1) \o SubSeq(s, i + 1, Len(s))
RECURSIVE Retain(_, _)
Retain(s, name) ==
    IF s = <<>> THEN <<>>
    ELSE IF Head(s) # name THEN <<Head(s)>> \o Retain(Tail(s), name)
         ELSE Retain(Tail(s), name)

\* ------------------------------------------------------------------ jobs
\* kind: "chat", "delete", "refresh", "search"
\* pc:   "call"   the external call is outstanding
\*       "write"  the call returned; the job is about to lock and write
\*       "status" (refresh only) refresh_models wrote; "Models refreshed" is next
Job(kind, pc, name, query, ok, data, err) ==
    [kind |-> kind, pc |-> pc, name |-> name, query |-> query,
     ok |-> ok, data |-> data, err |-> err]
NewJob(kind, name, query) == Job(kind, "call", name, query, FALSE, <<>>, "")
Returned(j, ok, data, err) == [j EXCEPT !.pc = "write", !.ok = ok, !.data = data, !.err = err]

One(j) == SetToBag({j})
NoJobs == EmptyBag
JobsOfKind(b, kind) == {j \in BagToSet(b) : j.kind = kind}
RECURSIVE SumCopies(_, _)
SumCopies(b, S) ==
    IF S = {} THEN 0
    ELSE LET j == CHOOSE x \in S : TRUE IN CopiesIn(j, b) + SumCopies(b, S \ {j})
Outstanding(b, kind) == SumCopies(b, JobsOfKind(b, kind))

\* ------------------------------------------------------------------ AppState
AppStateNew ==
    [current_tab |-> "Chat",
     selected_model |-> None,
     models |-> <<>>,
     messages |-> <<>>,
     input_text |-> <<>>,
     is_loading |-> FALSE,
     search_query |-> <<>>,
     search_results |-> <<>>,
     is_searching |-> FALSE,
     model_list_state |-> Some(0),
     search_list_state |-> Some(0),
     chat_scroll_state |-> Some(0),
     input_mode |-> FALSE,
     status_message |-> None]

\* A handler's effect: the state it leaves and the jobs it spawned.
Effect(s, spawned) == [state |-> s, spawned |-> spawned]

\* Enter in insert mode: the condition of the submit, and the submit.
can_submit_any_text(s) == IsSome(s.selected_model)
can_submit(s) == s.input_text # <<>> /\ IsSome(s.selected_model)

submit_keeps_input(s) ==
    Effect([s EXCEPT !.messages = Append(@, ChatMessage("user", s.input_text)),
                     !.is_loading = TRUE,
                     !.input_mode = FALSE],
           One(NewJob("chat", Unwrap(s.selected_model), <<>>)))
submit(s) ==
    Effect([s EXCEPT !.input_text = <<>>,
                     !.messages = Append(@, ChatMessage("user", s.input_text)),
                     !.is_loading = TRUE,
                     !.input_mode = FALSE],
           One(NewJob("chat", Unwrap(s.selected_model), <<>>)))

handle_chat_input(s, key) ==
    IF s.input_mode THEN
        CASE key.code = "Char" ->
                Effect([s EXCEPT !.input_text = Append(@, key.c)], NoJobs)
          [] key.code = "Backspace" ->
                Effect([s EXCEPT !.input_text = Pop(@)], NoJobs)
          [] key.code = "Enter" ->
                IF can_submit(s) THEN submit(s) ELSE Effect(s, NoJobs)
          [] key.code = "Esc" ->
                Effect([s EXCEPT !.input_mode = FALSE], NoJobs)
          [] OTHER -> Effect(s, NoJobs)
    ELSE
        CASE key \in {Char("i"), Char("a"), Key("Enter")} ->
                IF IsSome(s.selected_model)
                THEN Effect([s EXCEPT !.input_mode = TRUE], NoJobs)
                ELSE Effect(s, NoJobs)
          [] key \in {Char("j"), Key("Down")} ->
                IF IsSome(s.chat_scroll_state) /\ s.messages # <<>>
                THEN Effect([s EXCEPT !.chat_scroll_state =
                                Some(Min(Unwrap(@) + 1, Len(s.messages) - 1))], NoJobs)
                ELSE Effect(s, NoJobs)
          [] key \in {Char("k"), Key("Up")} ->
                IF IsSome(s.chat_scroll_state)
                THEN Effect([s EXCEPT !.chat_scroll_state = Some(SatSub1(Unwrap(@)))], NoJobs)
                ELSE Effect(s, NoJobs)
          [] key \in {Char("G"), Key("End")} ->
                IF s.messages # <<>>
                THEN Effect([s EXCEPT !.chat_scroll_state = Some(Len(s.messages) - 1)], NoJobs)
                ELSE Effect(s, NoJobs)
          [] key = Char("g") ->
                Effect([s EXCEPT !.chat_scroll_state = Some(0)], NoJobs)
          [] key = Char("d") ->
                IF IsSome(s.chat_scroll_state) /\ Unwrap(s.chat_scroll_state) < Len(s.messages)
                THEN Effect([s EXCEPT !.messages =
                                RemoveAt(@, Unwrap(s.chat_scroll_state) + 1)], NoJobs)
                ELSE Effect(s, NoJobs)
          [] OTHER -> Effect(s, NoJobs)

\* Vec::get: the element at an index, if the index is below the length.
get_clamped(list, index) ==
    IF list = <<>> THEN None ELSE Some(list[Min(index, Len(list) - 1) + 1])
get(list, index) == IF index < Len(list) THEN Some(list[index + 1]) ELSE None

handle_models_input(s, key) ==
    CASE key \in {Char("j"), Key("Down")} ->
            IF IsSome(s.model_list_state) /\ s.models # <<>>
            THEN Effect([s EXCEPT !.model_list_state =
                            Some(Min(Unwrap(@) + 1, Len(s.models) - 1))], NoJobs)
            ELSE Effect(s, NoJobs)
      [] key \in {Char("k"), Key("Up")} ->
            IF IsSome(s.model_list_state)
            THEN Effect([s EXCEPT !.model_list_state = Some(SatSub1(Unwrap(@)))], NoJobs)
            ELSE Effect(s, NoJobs)
      [] key \in {Char("G"), Key("End")} ->
            IF s.models # <<>>
            THEN Effect([s EXCEPT !.model_list_state = Some(Len(s.models) - 1)], NoJobs)
            ELSE Effect(s, NoJobs)
      [] key = Char("g") ->
            Effect([s EXCEPT !.model_list_state = Some(0)], NoJobs)
      [] key = Key("Enter") ->
            IF IsSome(s.model_list_state)
                    /\ IsSome(get(s.models, Unwrap(s.model_list_state)))
            THEN LET model == Unwrap(get(s.models, Unwrap(s.model_list_state))) IN
                 Effect([s EXCEPT !.selected_model = Some(model),
                                  !.current_tab = "Chat"], NoJobs)
            ELSE Effect(s, NoJobs)
      [] key = Char("d") ->
            IF IsSome(s.model_list_state)
                    /\ IsSome(get(s.models, Unwrap(s.model_list_state)))
            THEN LET model_name == Unwrap(get(s.models, Unwrap(s.model_list_state))) IN
                 Effect([s EXCEPT !.status_message =
                                      Some("Deleting " \o model_name \o "...")],
                        One(NewJob("delete", model_name, <<>>)))
            ELSE Effect(s, NoJobs)
      [] key = Char("r") ->
            Effect([s EXCEPT !.status_message = Some("Refreshing models...")],
                   One(NewJob("refresh", "", <<>>)))
      [] OTHER -> Effect(s, NoJobs)

\* Enter in the search view: the condition of the dispatch.
can_search_always(s) == TRUE
can_search(s) == ~s.is_searching

handle_search_input(s, key) ==
    CASE key \in {Char("j"), Key("Down")} ->
            IF IsSome(s.search_list_state) /\ s.search_results # <<>>
            THEN Effect([s EXCEPT !.search_list_state =
                            Some(Min(Unwrap(@) + 1, Len(s.search_results) - 1))], NoJobs)
            ELSE Effect(s, NoJobs)
      [] key \in {Char("k"), Key("Up")} ->
            IF IsSome(s.search_list_state)
            THEN Effect([s EXCEPT !.search_list_state = Some(SatSub1(Unwrap(@)))], NoJobs)
            ELSE Effect(s, NoJobs)
      [] key \in {Char("G"), Key("End")} ->
            IF s.search_results # <<>>
            THEN Effect([s EXCEPT !.search_list_state = Some(Len(s.search_results) - 1)], NoJobs)
            ELSE Effect(s, NoJobs)
      [] key = Char("g") ->
            Effect([s EXCEPT !.search_list_state = Some(0)], NoJobs)
      [] key.code = "Char" ->
            Effect([s EXCEPT !.search_query = Append(@, key.c)], NoJobs)
      [] key.code = "Backspace" ->
            Effect([s EXCEPT !.search_query = Pop(@)], NoJobs)
      [] key.code = "Enter" ->
            IF can_search(s)
            THEN Effect([s EXCEPT !.is_searching = TRUE],
                        One(NewJob("search", "", s.search_query)))
            ELSE Effect(s, NoJobs)
      [] OTHER -> Effect(s, NoJobs)

NextTab(tab) ==
    CASE tab = "Chat" -> "Models"
      [] tab = "Models" -> "Search"
      [] tab = "Search" -> "Chat"

\* One iteration of run_app's loop for a key press: route to the active view's
\* handler, then Esc leaves the loop and Tab switches the view.
Dispatch(s, key) ==
    CASE s.current_tab = "Chat" -> handle_chat_input(s, key)
      [] s.current_tab = "Models" -> handle_models_input(s, key)
      [] s.current_tab = "Search" -> handle_search_input(s, key)

AfterKey(s, key) ==
    IF key.code = "Tab" THEN [s EXCEPT !.current_tab = NextTab(@)] ELSE s

\* The chat jobs that may still append a reply: the call is outstanding or succeeded.
Replies(b) == SumCopies(b, {j \in JobsOfKind(b, "chat") : j.pc = "call" \/ j.ok})

\* The part of the state space that is explored: a submit is taken only when the
\* conversation, with the replies still to come, stays within MaxMsgs turns.
WithinBounds(s, b) ==
    /\ Len(s.input_text) <= MaxInput
    /\ Len(s.search_query) <= MaxInput
    /\ \A i \in 1..Len(s.input_text) : s.input_text[i] \in TypedChars
    /\ \A i \in 1..Len(s.search_query) : s.search_query[i] \in TypedChars
    /\ Len(s.messages) + Replies(b) <= MaxMsgs
    /\ BagCardinality(b) <= MaxJobs

KeyEvent(key) ==
    /\ mainPc = "loop"
    /\ LET e == Dispatch(state, key) IN
        /\ WithinBounds(e.state, jobs (+) e.spawned)
        /\ state' = AfterKey(e.state, key)
        /\ jobs' = jobs (+) e.spawned
    /\ mainPc' = IF key.code = "Esc" THEN "exited" ELSE "loop"
    /\ UNCHANGED <<serverModels, decVars, loopVars, scanVars>>


\* ------------------------------------------------------------------ external calls
\* Each returns the set of outcomes the call can have: what the client hands back
\* (ok, data, err) and the server's installed models afterwards.
Outcome(ok, data, err, server) == [ok |-> ok, data |-> data, err |-> err, server |-> server]

\* GET /api/tags: Err when the request or the decoding of the body fails.
list_models(server) ==
    {Outcome(TRUE, server, "", server), Outcome(FALSE, <<>>, ErrText, server)}

\* DELETE /api/delete: only a failed send is an Err; the response's status is not
\* looked at, so a refusal by the server (the model stays installed) is Ok(()).
delete_model(server, name) ==
    {Outcome(TRUE, <<>>, "", Retain(server, name)),
     Outcome(TRUE, <<>>, "", server),
     Outcome(FALSE, <<>>, ErrText, server)}

\* POST /api/chat, one round trip: the reply's message, or an error.
chat(server, model) ==
    {Outcome(TRUE, ReplyText, "", server), Outcome(FALSE, <<>>, ErrText, server)}

\* The catalog resolve: get_popular_models for an empty query, search_online
\* otherwise; both fail when the page cannot be fetched.
resolve(server, query) ==
    {Outcome(TRUE, l, "", server) : l \in CatalogLists}
        \cup {Outcome(FALSE, <<>>, ErrText, server)}

\* Result::unwrap_or_default on the resolve's result.
unwrap_or_default(j) == IF j.ok THEN j.data ELSE <<>>

\* ------------------------------------------------------------------ job writes
\* What each job writes in its critical section, given the returned call.
chat_job_write_err_keeps_flag(s, j) ==
    IF j.ok
    THEN [s EXCEPT !.messages = Append(@, ChatMessage("assistant", j.data)),
                   !.is_loading = FALSE,
                   !.input_mode = TRUE]
    ELSE [s EXCEPT !.status_message = Some("Error: " \o j.err),
                   !.input_mode = TRUE]
chat_job_write(s, j) ==
    IF j.ok
    THEN [s EXCEPT !.messages = Append(@, ChatMessage("assistant", j.data)),
                   !.is_loading = FALSE,
                   !.input_mode = TRUE]
    ELSE [s EXCEPT !.status_message = Some("Error: " \o j.err),
                   !.is_loading = FALSE,
                   !.input_mode = TRUE]

delete_job_write(s, j) ==
    IF j.ok
    THEN [s EXCEPT !.models = Retain(@, j.name),
                   !.selected_model = IF @ = Some(j.name) THEN None ELSE @,
                   !.status_message = Some("Deleted " \o j.name)]
    ELSE [s EXCEPT !.status_message = Some("Delete failed: " \o j.err)]

\* Variant: a fenced write, which drops a response that is not the newest list.
refresh_models_write_fenced(s, ok, data, err) ==
    IF ok
    THEN [s EXCEPT !.models = IF data = serverModels THEN data ELSE @]
    ELSE [s EXCEPT !.status_message =
              Some("Failed to connect: " \o err \o ". Make sure Ollama is running.")]

refresh_models_write(s, ok, data, err) ==
    IF ok
    THEN [s EXCEPT !.models = data]
    ELSE [s EXCEPT !.status_message =
              Some("Failed to connect: " \o err \o ". Make sure Ollama is running.")]

\* Variant: the job's last write clears the status message.
refresh_job_status_clears(s) == [s EXCEPT !.status_message = None]
refresh_job_status(s) == [s EXCEPT !.status_message = Some("Models refreshed")]

search_job_write(s, j) ==
    [s EXCEPT !.search_results = unwrap_or_default(j),
              !.is_searching = FALSE]

\* ------------------------------------------------------------------ the footer
\* What ui puts in the footer: the status message if there is one, else the
\* Loading indicator while is_loading, else the key hints of the view and mode.
Loading == " Loading... "
InsertHints == " INSERT: typing... | Esc: exit insert | Enter: send "
NormalHints ==
    " NORMAL: j/k: scroll | g: top | G: bottom | i/a/Enter: input | d: del msg | Tab: switch | Esc: quit "
ModelsHints == " j/k: select | Enter: use | d: delete | r: refresh | Tab: switch | Esc: quit "
SearchHints == " j/k: select | Enter: search | Tab: switch | Esc: quit "

ui_hints(s) ==
    CASE s.current_tab = "Chat" -> IF s.input_mode THEN InsertHints ELSE NormalHints
      [] s.current_tab = "Models" -> ModelsHints
      [] s.current_tab = "Search" -> SearchHints

ui_footer(s) ==
    IF IsSome(s.status_message) THEN Unwrap(s.status_message)
    ELSE IF s.is_loading THEN Loading ELSE ui_hints(s)

\* ------------------------------------------------------------------ job steps
\* The interactive thread is inside run_app's loop (a job's thread ends with the process).
InLoop == mainPc \in {"loop", "painting", "read", "key"}
Running(j) == InLoop /\ BagIn(j, jobs)
Replace(j, k) == (jobs (-) One(j)) (+) One(k)

\* The external call of a job returns.
ChatCall(j) ==
    /\ Running(j) /\ j.kind = "chat" /\ j.pc = "call"
    /\ \E o \in chat(serverModels, j.name) :
        /\ jobs' = Replace(j, Returned(j, o.ok, o.data, o.err))
        /\ serverModels' = o.server
    /\ UNCHANGED <<state, mainPc, decVars, loopVars, scanVars>>

DeleteCall(j) ==
    /\ Running(j) /\ j.kind = "delete" /\ j.pc = "call"
    /\ \E o \in delete_model(serverModels, j.name) :
        /\ jobs' = Replace(j, Returned(j, o.ok, o.data, o.err))
        /\ serverModels' = o.server
    /\ UNCHANGED <<state, mainPc, decVars, loopVars, scanVars>>

RefreshCall(j) ==
    /\ Running(j) /\ j.kind = "refresh" /\ j.pc = "call"
    /\ \E o \in list_models(serverModels) :
        /\ jobs' = Replace(j, Returned(j, o.ok, o.data, o.err))
        /\ serverModels' = o.server
    /\ UNCHANGED <<state, mainPc, decVars, loopVars, scanVars>>

SearchCall(j) ==
    /\ Running(j) /\ j.kind = "search" /\ j.pc = "call"
    /\ \E o \in resolve(serverModels, j.query) :
        /\ jobs' = Replace(j, Returned(j, o.ok, o.data, o.err))
        /\ serverModels' = o.server
    /\ UNCHANGED <<state, mainPc, decVars, loopVars, scanVars>>

\* The job takes the lock, writes, and releases it.
ChatWrite(j) ==
    /\ Running(j) /\ j.kind = "chat" /\ j.pc = "write"
    /\ state' = chat_job_write(state, j)
    /\ jobs' = jobs (-) One(j)
    /\ UNCHANGED <<serverModels, mainPc, decVars, loopVars, scanVars>>

DeleteWrite(j) ==
    /\ Running(j) /\ j.kind = "delete" /\ j.pc = "write"
    /\ state' = delete_job_write(state, j)
    /\ jobs' = jobs (-) One(j)
    /\ UNCHANGED <<serverModels, mainPc, decVars, loopVars, scanVars>>

\* refresh_models' write inside the refresh job; the job goes on to its own write.
RefreshWrite(j) ==
    /\ Running(j) /\ j.kind = "refresh" /\ j.pc = "write"
    /\ state' = refresh_models_write(state, j.ok, j.data, j.err)
    /\ jobs' = Replace(j, [j EXCEPT !.pc = "status"])
    /\ UNCHANGED <<serverModels, mainPc, decVars, loopVars, scanVars>>

RefreshStatus(j) ==
    /\ Running(j) /\ j.kind = "refresh" /\ j.pc = "status"
    /\ state' = refresh_job_status(state)
    /\ jobs' = jobs (-) One(j)
    /\ UNCHANGED <<serverModels, mainPc, decVars, loopVars, scanVars>>

SearchWrite(j) ==
    /\ Running(j) /\ j.kind = "search" /\ j.pc = "write"
    /\ state' = search_job_write(state, j)
    /\ jobs' = jobs (-) One(j)
    /\ UNCHANGED <<serverModels, mainPc, decVars, loopVars, scanVars>>

\* ------------------------------------------------------------------ startup
\* run_app blocks the interactive thread on refresh_models before its loop.
StartupCall ==
    /\ mainPc = "startup_call"
    /\ \E o \in list_models(serverModels) :
        mainPc' = IF o.ok THEN "startup_ok" ELSE "startup_err"
    /\ UNCHANGED <<state, jobs, serverModels, decVars, loopVars, scanVars>>

\* No job exists yet, so the response still equals serverModels.
StartupWrite ==
    /\ mainPc \in {"startup_ok", "startup_err"}
    /\ state' = refresh_models_write(state, mainPc = "startup_ok", serverModels, ErrText)
    /\ mainPc' = "loop"
    /\ UNCHANGED <<jobs, serverModels, decVars, loopVars, scanVars>>

\* ------------------------------------------------------------------ the lock, step by step
\* The actions above take a critical section (lock, write, release) as one step.
\* The actions below are the same code with the acquisition and the release of
\* the Mutex as steps of their own, and with the loop's three positions apart:
\*   "loop"      top of the loop, about to paint
\*   "painting"  inside terminal.draw's closure, holding the lock
\*   "read"      blocked in event::read()
\*   "key"       a key press was read and the lock taken; the handler is next
\* A job that holds the lock has "_locked" appended to its pc.

\* terminal.draw(|f| { let s = state.blocking_lock(); ...
DrawLock ==
    /\ mainPc = "loop" /\ lock = "free"
    /\ lock' = "main"
    /\ mainPc' = "painting"
    /\ UNCHANGED <<state, jobs, serverModels, dirty, decVars, scanVars>>

\* ... ui(f, &s); }): the frame shows the state as it is now; the guard is dropped.
DrawUnlock ==
    /\ mainPc = "painting"
    /\ lock' = "free"
    /\ dirty' = FALSE
    /\ mainPc' = "read"
    /\ UNCHANGED <<state, jobs, serverModels, decVars, scanVars>>

\* event::read() returns a key press and the interactive thread takes the lock.
ReadKey ==
    /\ mainPc = "read" /\ lock = "free"
    /\ lock' = "main"
    /\ mainPc' = "key"
    /\ UNCHANGED <<state, jobs, serverModels, dirty, decVars, scanVars>>

\* event::read() returns an event that is no key press (mouse, resize, key release).
ReadOther ==
    /\ mainPc = "read"
    /\ mainPc' = "loop"
    /\ UNCHANGED <<state, jobs, serverModels, loopVars, decVars, scanVars>>

\* The handler runs under the lock; the guard is dropped at the end of the block
\* (or by the return on Esc).
HandleKey(key) ==
    /\ mainPc = "key"
    /\ LET e == Dispatch(state, key) IN
        /\ WithinBounds(e.state, jobs (+) e.spawned)
        /\ state' = AfterKey(e.state, key)
        /\ jobs' = jobs (+) e.spawned
    /\ lock' = "free"
    /\ mainPc' = IF key.code = "Esc" THEN "exited" ELSE "loop"
    /\ UNCHANGED <<serverModels, dirty, decVars, scanVars>>

\* Where a job calls lock().await: after its call returned, and (refresh job)
\* after refresh_models returned.
may_lock_any_time(j) == j.pc \in {"call", "write", "status"}
may_lock(j) == j.pc \in {"write", "status"}

JobLock(j) ==
    /\ Running(j) /\ may_lock(j) /\ lock = "free"
    /\ lock' = "job"
    /\ jobs' = Replace(j, [j EXCEPT !.pc = @ \o "_locked"])
    /\ UNCHANGED <<state, serverModels, mainPc, dirty, decVars, scanVars>>

\* What the holder of the lock writes before its guard is dropped.
job_write(s, j) ==
    CASE j.kind = "chat" -> chat_job_write(s, j)
      [] j.kind = "delete" -> delete_job_write(s, j)
      [] j.kind = "refresh" ->
            IF j.pc = "write_locked"
            THEN refresh_models_write(s, j.ok, j.data, j.err)
            ELSE refresh_job_status(s)
      [] j.kind = "search" -> search_job_write(s, j)

\* The refresh job goes on after refresh_models' critical section; every other
\* job ends with its critical section.
after_write(j) ==
    IF j.kind = "refresh" /\ j.pc = "write_locked"
    THEN One([j EXCEPT !.pc = "status"])
    ELSE NoJobs

JobWrite(j) ==
    /\ Running(j) /\ j.pc \in {"write_locked", "status_locked"}
    /\ state' = job_write(state, j)
    /\ jobs' = (jobs (-) One(j)) (+) after_write(j)
    /\ lock' = "free"
    /\ dirty' = TRUE
    /\ UNCHANGED <<serverModels, mainPc, decVars, scanVars>>

\* ------------------------------------------------------------------ streaming decoder
\* A line of the response body, as BufRead::lines hands it over:
\*   "blank"    empty, or white space only
\*   "garbage"  text that is not a JSON object
\*   "json"     a JSON object holding the fields named in `fields`
\*   "ioerr"    no line: the read failed (lines() yields Err)
AllFields == {"model", "message.role", "message.content", "done"}
BareFields == {"message.content", "done"}
Line(kind, fields, text, done) == [kind |-> kind, fields |-> fields, text |-> text, done |-> done]
Frame(fields, text, done) == Line("json", fields, text, done)
BlankLine == Line("blank", {}, "", FALSE)
GarbageLine == Line("garbage", {}, "", FALSE)
ReadError == Line("ioerr", {}, "", FALSE)
Fragments == {"He", "llo"}
LineSet ==
    {BlankLine, GarbageLine, ReadError}
        \cup {Frame(f, c, d) : f \in {AllFields, BareFields}, c \in Fragments, d \in BOOLEAN}

\* serde_json::from_str::<ChatResponse>: model, message.role, message.content and
\* done are all required (no Option, no default); other text is an Err.
from_str_ChatResponse(line) ==
    IF line.kind = "json" /\ AllFields \subseteq line.fields
    THEN Some([content |-> line.text, done |-> line.done])
    ELSE None

\* content.push_str(&resp.message.content); the callback gets content.clone().
push_str_replaces(acc, fragment) == fragment
push_str(acc, fragment) == acc \o fragment

\* The body of the for loop for one item of reader.lines(): the decoder after it.
Decoder(acc, cs, pc) == [content |-> acc, calls |-> cs, dpc |-> pc]
\* `if let Ok(resp) = ...` on a line that does not deserialize: nothing happens.
skip_line_aborts(acc, cs) == Decoder(acc, cs, "err")
skip_line(acc, cs) == Decoder(acc, cs, "reading")

chat_streaming_line(acc, cs, line) ==
    IF line.kind = "ioerr" THEN Decoder(acc, cs, "err")
    ELSE IF line.kind = "blank" THEN Decoder(acc, cs, "reading")
    ELSE LET resp == from_str_ChatResponse(line) IN
         IF IsSome(resp)
         THEN LET now == push_str(acc, Unwrap(resp).content) IN
              Decoder(now, Append(cs, now), IF Unwrap(resp).done THEN "ok" ELSE "reading")
         ELSE skip_line(acc, cs)

\* The iterator is exhausted: Ok(content).
chat_streaming_end_is_error(acc, cs) == Decoder(acc, cs, "err")
chat_streaming_end(acc, cs) == Decoder(acc, cs, "ok")

DecodeLine ==
    /\ dpc = "reading" /\ pos < Len(lines)
    /\ LET d == chat_streaming_line(content, calls, lines[pos + 1]) IN
        /\ content' = d.content /\ calls' = d.calls /\ dpc' = d.dpc
    /\ pos' = pos + 1
    /\ UNCHANGED <<lines, appVars, loopVars, scanVars>>

DecodeEnd ==
    /\ dpc = "reading" /\ pos = Len(lines)
    /\ LET d == chat_streaming_end(content, calls) IN
        /\ content' = d.content /\ calls' = d.calls /\ dpc' = d.dpc
    /\ UNCHANGED <<lines, pos, appVars, loopVars, scanVars>>

\* ------------------------------------------------------------------ catalog scan
\* Text of the catalog page is a sequence of symbols: a symbol is one of the fixed
\* strings the scanner looks for, or a piece of other text.  A pattern is found
\* only where its symbol stands.
ATag == "<a "
Href == "href=\""
Quote == "\""
Library == "/library/"
Slash == "/"
QMark == "?"
HrefEq == "href="              \* what is left of Href in front of its quote
Symbols == {ATag, Href, Quote, Library, Slash, QMark, "llama3"}
HrefSymbols == {Library, Slash, QMark, "llama3"}

has_slash(sym) == sym \in {Slash, Library}
has_qmark(sym) == sym = QMark
has_quote(sym) == sym \in {Quote, Href}

\* str::find: the index of the first symbol that satisfies Is (0: none), here
\* for a symbol, for '"', and str::contains for a symbol.
RECURSIVE find(_, _)
find(text, S) ==
    IF text = <<>> THEN 0
    ELSE IF Head(text) \in S THEN 1
         ELSE LET r == find(Tail(text), S) IN IF r = 0 THEN 0 ELSE r + 1
contains(text, sym) == find(text, {sym}) # 0

\* str::trim_start_matches: strips the prefix as often as it is repeated.
RECURSIVE trim_start_matches(_, _)
trim_start_matches(text, sym) ==
    IF text # <<>> /\ Head(text) = sym THEN trim_start_matches(Tail(text), sym) ELSE text

starts_with(text, sym) == text # <<>> /\ Head(text) = sym

\* The text between the first href=" and the next '"' (which may be the quote of
\* a further href=").
href_of(rest) ==
    LET e == find(rest, {s \in Symbols : has_quote(s)}) IN
    IF e = 0 THEN None
    ELSE Some(SubSeq(rest, 1, e - 1) \o (IF rest[e] = Href THEN <<HrefEq>> ELSE <<>>))

extract_model_name(line) ==
    LET href_start == find(line, {Href}) IN
    IF href_start = 0 THEN None
    ELSE LET href == href_of(SubSeq(line, href_start + 1, Len(line))) IN
         IF ~IsSome(href) THEN None
         ELSE IF ~starts_with(Unwrap(href), Library) THEN None
         ELSE LET name == trim_start_matches(Unwrap(href), Library) IN
              IF name = <<>> THEN None
              ELSE IF \E i \in 1..Len(name) : has_slash(name[i]) \/ has_qmark(name[i])
                   THEN None
                   ELSE Some(name)

\* The body of the scanning loop for one line.
scan_line(line) ==
    IF contains(line, Library) /\ contains(line, ATag)
    THEN extract_model_name(line)
    ELSE None

\* A line is scanned.
ScanLine ==
    /\ spc = "fetched"
    /\ found' = scan_line(page[1])
    /\ spc' = "done"
    /\ UNCHANGED <<page, keyword, appVars, decVars, loopVars>>

\* The scanning loops of search_online and get_popular_models, and what follows.
OnlineModel(name) ==
    [name |-> name, description |-> None, url |-> <<"https://ollama.com", Library>> \o name]

\* str::to_lowercase, on the symbols names and queries are made of.
lower(sym) == IF sym = "B" THEN "b" ELSE sym
to_lowercase(text) == [i \in 1..Len(text) |-> lower(text[i])]
contains_text(text, pat) ==
    \E i \in 0..(Len(text) - Len(pat)) : SubSeq(text, i + 1, i + Len(pat)) = pat

\* query.is_empty() || name.to_lowercase().contains(&query.to_lowercase())
keeps(name, q) == q = <<>> \/ contains_text(to_lowercase(name), to_lowercase(q))

RECURSIVE scan(_, _)
scan(ls, q) ==
    IF ls = <<>> THEN <<>>
    ELSE LET name == scan_line(Head(ls)) IN
         (IF IsSome(name) /\ keeps(Unwrap(name), q)
          THEN <<OnlineModel(Unwrap(name))>> ELSE <<>>) \o scan(Tail(ls), q)

\* models.retain(|m| unique.insert(m.name.clone())): an element stays when its
\* name was not in the set before.
RECURSIVE retain_insert(_, _)
retain_insert(models, unique) ==
    IF models = <<>> THEN <<>>
    ELSE IF Head(models).name \in unique THEN retain_insert(Tail(models), unique)
         ELSE <<Head(models)>> \o retain_insert(Tail(models), unique \cup {Head(models).name})
retain_all(models) == models
retain_unique(models) == retain_insert(models, {})

truncate(s, n) == IF Len(s) > n THEN SubSeq(s, 1, n) ELSE s

SearchCap == 50
PopularCap == 30
search_online(body, q) == truncate(retain_unique(scan(body, q)), SearchCap)
get_popular_models(body) == truncate(retain_unique(scan(body, <<>>)), PopularCap)

\* The resolve of a search job: the popular listing for an empty query.
SearchOnline ==
    /\ spc = "fetched" /\ keyword # <<>>
    /\ found' = search_online(page, keyword)
    /\ spc' = "searched"
    /\ UNCHANGED <<page, keyword, appVars, decVars, loopVars>>

GetPopular ==
    /\ spc = "fetched" /\ keyword = <<>>
    /\ found' = get_popular_models(page)
    /\ spc' = "popular"
    /\ UNCHANGED <<page, keyword, appVars, decVars, loopVars>>

\* ------------------------------------------------------------------ specification
DecoderIdle ==
    /\ lines = <<>> /\ pos = 0 /\ content = "" /\ calls = <<>> /\ dpc = "idle"

LoopIdle == lock = "free" /\ dirty = FALSE
ScanIdle == page = <<>> /\ keyword = <<>> /\ found = <<>> /\ spc = "idle"

InitWith(installed) ==
    /\ state = AppStateNew
    /\ jobs = NoJobs
    /\ serverModels = installed
    /\ mainPc = "startup_call"
    /\ DecoderIdle /\ LoopIdle /\ ScanIdle

Init == InitWith(<<"m1", "m2">>)

\* The whole program: any key in any view, every job kind.
Next ==
    \/ StartupCall
    \/ StartupWrite
    \/ \E key \in Keys : KeyEvent(key)
    \/ \E j \in BagToSet(jobs) :
        \/ ChatCall(j) \/ DeleteCall(j) \/ RefreshCall(j) \/ SearchCall(j)
        \/ ChatWrite(j) \/ DeleteWrite(j) \/ RefreshWrite(j) \/ RefreshStatus(j)
        \/ SearchWrite(j)

Spec == Init /\ [][Next]_vars

\* ------------------------------------------------------------------ sessions
\* The three views are independent, so the program is explored one kind of
\* session at a time: the same actions, with the user's keys per view limited.
TabOnly == {Key("Tab")}

\* A chat session: every key in the conversation view; selecting and deleting
\* the installed model in the model list.
ChatKeys(tab) ==
    CASE tab = "Chat" -> Keys
      [] tab = "Models" -> {Key("Enter"), Char("d"), Key("Tab")}
      [] tab = "Search" -> TabOnly

ChatNext ==
    \/ StartupCall
    \/ StartupWrite
    \/ \E key \in ChatKeys(state.current_tab) : KeyEvent(key)
    \/ \E j \in BagToSet(jobs) :
        \/ ChatCall(j) \/ ChatWrite(j) \/ DeleteCall(j) \/ DeleteWrite(j)

ChatSpec == InitWith(<<"m1">>) /\ [][ChatNext]_vars

\* A model-list session: every key in the model list, two models installed.
ModelsKeys(tab) == IF tab = "Models" THEN Keys ELSE TabOnly

ModelsNext ==
    \/ StartupCall
    \/ StartupWrite
    \/ \E key \in ModelsKeys(state.current_tab) : KeyEvent(key)
    \/ \E j \in BagToSet(jobs) :
        \/ DeleteCall(j) \/ DeleteWrite(j)
        \/ RefreshCall(j) \/ RefreshWrite(j) \/ RefreshStatus(j)

ModelsSpec == InitWith(<<"m1", "m2">>) /\ [][ModelsNext]_vars

\* A search session: every key in the search view.
SearchKeys(tab) == IF tab = "Search" THEN Keys ELSE TabOnly

SearchNext ==
    \/ StartupCall
    \/ StartupWrite
    \/ \E key \in SearchKeys(state.current_tab) : KeyEvent(key)
    \/ \E j \in BagToSet(jobs) : SearchCall(j) \/ SearchWrite(j)

SearchSpec == InitWith(<<"m1">>) /\ [][SearchNext]_vars

\* A session of every job kind: the keys that reach and dispatch the jobs.
JobsKeys(tab) ==
    CASE tab = "Chat" -> {Char("i"), Char("x"), Key("Enter"), Key("Tab")}
      [] tab = "Models" -> {Key("Enter"), Char("d"), Char("r"), Key("Tab")}
      [] tab = "Search" -> {Key("Enter"), Key("Tab")}

JobsNext ==
    \/ StartupCall
    \/ StartupWrite
    \/ \E key \in JobsKeys(state.current_tab) : KeyEvent(key)
    \/ \E j \in BagToSet(jobs) :
        \/ ChatCall(j) \/ DeleteCall(j) \/ RefreshCall(j) \/ SearchCall(j)
        \/ ChatWrite(j) \/ DeleteWrite(j) \/ RefreshWrite(j) \/ RefreshStatus(j)
        \/ SearchWrite(j)

JobsSpec == InitWith(<<"m1">>) /\ [][JobsNext]_vars

\* A session of the two job kinds that own an in-flight flag, chat and search.
FlagKeys(tab) ==
    CASE tab = "Chat" -> {Char("i"), Char("x"), Key("Enter"), Key("Esc"), Key("Tab")}
      [] tab = "Models" -> {Key("Enter"), Key("Tab")}
      [] tab = "Search" -> {Key("Enter"), Key("Esc"), Key("Tab")}

FlagNext ==
    \/ StartupCall
    \/ StartupWrite
    \/ \E key \in FlagKeys(state.current_tab) : KeyEvent(key)
    \/ \E j \in BagToSet(jobs) :
        \/ ChatCall(j) \/ SearchCall(j) \/ ChatWrite(j) \/ SearchWrite(j)

FlagSpec == InitWith(<<"m1">>) /\ [][FlagNext]_vars

\* A session of cursors left behind by a shrinking list: deleting turns in the
\* conversation view, deleting models in the model list, two models installed.
StaleKeys(tab) ==
    CASE tab = "Chat" -> {Char("i"), Char("x"), Char("d"), Key("Enter"), Key("Tab")}
      [] tab = "Models" -> {Char("j"), Char("d"), Key("Enter"), Key("Tab")}
      [] tab = "Search" -> TabOnly

StaleNext ==
    \/ StartupCall
    \/ StartupWrite
    \/ \E key \in StaleKeys(state.current_tab) :
            /\ KeyEvent(key)
            /\ BagCardinality(jobs') <= MaxFew
            /\ Len(state'.messages) <= MaxFew
    \/ \E j \in BagToSet(jobs) :
        \/ ChatCall(j) \/ ChatWrite(j) \/ DeleteCall(j) \/ DeleteWrite(j)

StaleSpec == InitWith(<<"m1", "m2">>) /\ [][StaleNext]_vars

\* A session of every writer of the status message: the keys that dispatch the
\* four job kinds, one job and one user turn at a time.
StatusNext ==
    \/ StartupCall
    \/ StartupWrite
    \/ \E key \in JobsKeys(state.current_tab) :
            /\ KeyEvent(key)
            /\ BagCardinality(jobs') <= MaxFew
            /\ Len(state'.messages) <= MaxFew
    \/ \E j \in BagToSet(jobs) :
        \/ ChatCall(j) \/ DeleteCall(j) \/ RefreshCall(j) \/ SearchCall(j)
        \/ ChatWrite(j) \/ DeleteWrite(j) \/ RefreshWrite(j) \/ RefreshStatus(j)
        \/ SearchWrite(j)

StatusSpec == InitWith(<<"m1">>) /\ [][StatusNext]_vars

\* A session with every acquisition of the lock a step of its own: the keys that
\* dispatch a chat job (one critical section) and a refresh job (two).
LockKeys(tab) ==
    CASE tab = "Chat" -> {Char("i"), Char("x"), Key("Enter"), Key("Tab")}
      [] tab = "Models" -> {Key("Enter"), Char("r"), Key("Tab")}
      [] tab = "Search" -> {Key("Enter"), Key("Tab")}

LockNext ==
    \/ StartupCall
    \/ StartupWrite
    \/ DrawLock
    \/ DrawUnlock
    \/ ReadKey
    \/ ReadOther
    \/ \E key \in LockKeys(state.current_tab) :
            /\ HandleKey(key)
            /\ BagCardinality(jobs') <= MaxFew
            /\ Len(state'.messages) <= MaxFew
    \/ \E j \in BagToSet(jobs) :
        \/ ChatCall(j) \/ RefreshCall(j) \/ SearchCall(j)
        \/ JobLock(j) \/ JobWrite(j)

LockSpec == InitWith(<<"m1">>) /\ [][LockNext]_vars

\* A refresh session, step by step, with what the scheduling guarantees: a call
\* returns, a thread that is at a lock gets it (the Mutex is fair), a thread that
\* runs goes on.  Nothing makes an input event arrive: ReadKey and ReadOther are
\* the user's and the terminal's to take.
PaintKeys(tab) == IF tab = "Models" THEN {Char("r"), Key("Tab")} ELSE TabOnly

PaintHandle ==
    \E key \in PaintKeys(state.current_tab) :
        HandleKey(key) /\ BagCardinality(jobs') <= MaxFew
PaintJobCall == \E j \in BagToSet(jobs) : RefreshCall(j)
PaintJobLock == \E j \in BagToSet(jobs) : JobLock(j)
PaintJobWrite == \E j \in BagToSet(jobs) : JobWrite(j)

PaintNext ==
    \/ StartupCall
    \/ StartupWrite
    \/ DrawLock
    \/ DrawUnlock
    \/ ReadKey
    \/ ReadOther
    \/ PaintHandle
    \/ PaintJobCall
    \/ PaintJobLock
    \/ PaintJobWrite

PaintSpec ==
    /\ InitWith(<<"m1">>)
    /\ [][PaintNext]_vars
    /\ WF_vars(StartupCall) /\ WF_vars(StartupWrite)
    /\ SF_vars(DrawLock) /\ WF_vars(DrawUnlock)
    /\ WF_vars(PaintHandle)
    /\ WF_vars(PaintJobCall) /\ SF_vars(PaintJobLock) /\ WF_vars(PaintJobWrite)

\* The streaming decoder on every response body of at most MaxLines lines.
Bodies == UNION {[1..n -> LineSet] : n \in 0..MaxLines}

DecoderInit ==
    /\ state = AppStateNew /\ jobs = NoJobs /\ serverModels = <<>>
    /\ mainPc = "startup_call"
    /\ lines \in Bodies
    /\ pos = 0 /\ content = "" /\ calls = <<>> /\ dpc = "reading"
    /\ LoopIdle /\ ScanIdle

DecoderNext == DecodeLine \/ DecodeEnd

DecoderSpec == DecoderInit /\ [][DecoderNext]_vars

\* The catalog extractor on every line of at most MaxSyms symbols, and on every
\* anchor whose href has at most MaxHref symbols.
RECURSIVE SeqsUpTo(_, _)
SeqsUpTo(S, n) ==
    IF n = 0 THEN {<<>>}
    ELSE LET shorter == SeqsUpTo(S, n - 1) IN
         shorter \cup {Append(s, x) : s \in shorter, x \in S}
Anchor(href) == <<ATag, Href>> \o href \o <<Quote>>
ScannedLines ==
    SeqsUpTo(Symbols, MaxSyms) \cup {Anchor(h) : h \in SeqsUpTo(HrefSymbols, MaxHref)}

ExtractInit ==
    /\ state = AppStateNew /\ jobs = NoJobs /\ serverModels = <<>>
    /\ mainPc = "startup_call"
    /\ DecoderIdle /\ LoopIdle
    /\ page \in {<<l>> : l \in ScannedLines}
    /\ keyword = <<>> /\ found = <<>> /\ spc = "fetched"

ExtractNext == ScanLine

ExtractSpec == ExtractInit /\ [][ExtractNext]_vars

\* The catalog resolve on pages of up to MaxEntries entries, every third of them
\* with a capital in its name, each entry once or repeated: line after line, list
\* after list, or the list and then its reverse; a line that is no entry in front.
EntryName(i) == <<IF i % 3 = 0 THEN "B" ELSE "a", ToString(i)>>
EntryLine(i) == Anchor(<<Library>> \o EntryName(i))
TagsLine == Anchor(<<Library, "a", Slash, "tags">>)
Listing(n) == [i \in 1..n |-> EntryLine(i)]
Patterns == {"once", "doubled", "again", "mirrored"}
PageOf(n, pattern) ==
    <<TagsLine>> \o
    CASE pattern = "once" -> Listing(n)
      [] pattern = "doubled" -> [k \in 1..(2 * n) |-> EntryLine((k + 1) \div 2)]
      [] pattern = "again" -> Listing(n) \o Listing(n)
      [] pattern = "mirrored" -> Listing(n) \o [k \in 1..n |-> EntryLine(n + 1 - k)]
Pages == {PageOf(n, pattern) : n \in 0..MaxEntries, pattern \in Patterns}
Queries == {<<>>, <<"a">>, <<"b">>, <<"z">>}

CatalogInit ==
    /\ state = AppStateNew /\ jobs = NoJobs /\ serverModels = <<>>
    /\ mainPc = "startup_call"
    /\ DecoderIdle /\ LoopIdle
    /\ page \in Pages /\ keyword \in Queries
    /\ found = <<>> /\ spc = "fetched"

CatalogNext == SearchOnline \/ GetPopular

CatalogSpec == CatalogInit /\ [][CatalogNext]_vars

\* ================================================================== claims
ChatJobs == Outstanding(jobs, "chat")
SearchJobs == Outstanding(jobs, "search")
AnyKeyEvent == \E key \in Keys : KeyEvent(key)
RECURSIVE CountRole(_, _)
CountRole(ms, role) ==
    IF ms = <<>> THEN 0
    ELSE (IF Head(ms).role = role THEN 1 ELSE 0) + CountRole(Tail(ms), role)

\* C1: a chat job's write, on its Ok and on its Err path, leaves is_loading false,
\* and a search job's write leaves is_searching false; so whenever no chat job is
\* outstanding is_loading is false, and whenever no search job is outstanding
\* is_searching is false: no completed job leaves its flag set.
C1_NoFlagLeftSet ==
    /\ ChatJobs = 0 => ~state.is_loading
    /\ SearchJobs = 0 => ~state.is_searching

\* C1 witness: a chat job that failed and a search job have both written their
\* outcome, nothing is outstanding, and both flags are false.
C1_Witness ==
    /\ jobs = NoJobs
    /\ state.status_message = Some("Error: " \o ErrText)
    /\ state.search_results # <<>>
    /\ CountRole(state.messages, "user") = 1
    /\ ~state.is_loading /\ ~state.is_searching

\* C2 (as claimed): while is_loading is true no key event appends a user turn or
\* dispatches a chat job, and at most one chat job is outstanding at any time.
C2_NoSubmitWhileLoading ==
    /\ [](ChatJobs <= 1)
    /\ [][(state.is_loading /\ AnyKeyEvent) =>
            /\ Outstanding(jobs', "chat") = ChatJobs
            /\ CountRole(state'.messages, "user") <= CountRole(state.messages, "user")]_vars

\* The step of a submit: Enter in the conversation view, insert mode, with a
\* non-empty input buffer and a selected model.
SubmitStep ==
    /\ state.current_tab = "Chat" /\ state.input_mode
    /\ state.input_text # <<>> /\ IsSome(state.selected_model)
    /\ KeyEvent(Key("Enter"))

CursorBelow(cursor, list) == list # <<>> => (IsSome(cursor) /\ Unwrap(cursor) < Len(list))
MoveKeys == {Char("j"), Char("k"), Char("G"), Char("g"), Key("Up"), Key("Down"), Key("End")}

\* C4 (as claimed): each selection cursor is below the length of its list
\* whenever the list is non-empty, and a cursor-movement key on an empty list
\* leaves the cursor unchanged.
C4_CursorsInRange ==
    /\ [](/\ CursorBelow(state.model_list_state, state.models)
          /\ CursorBelow(state.search_list_state, state.search_results)
          /\ CursorBelow(state.chat_scroll_state, state.messages))
    /\ [][\A key \in MoveKeys : KeyEvent(key) =>
            /\ (state.current_tab = "Models" /\ state.models = <<>>)
                    => state'.model_list_state = state.model_list_state
            /\ (state.current_tab = "Search" /\ state.search_results = <<>>)
                    => state'.search_list_state = state.search_list_state
            /\ (state.current_tab = "Chat" /\ ~state.input_mode /\ state.messages = <<>>)
                    => state'.chat_scroll_state = state.chat_scroll_state]_vars

\* C5: Enter in the conversation view with an empty input buffer or with no
\* selected model, in insert mode or in normal mode, leaves the message list and
\* the in-flight flag unchanged and dispatches no job.
C5_EnterNoOp ==
    [][(/\ state.current_tab = "Chat"
        /\ (state.input_text = <<>> \/ state.selected_model = None)
        /\ KeyEvent(Key("Enter"))) =>
            /\ state'.messages = state.messages
            /\ state'.is_loading = state.is_loading
            /\ jobs' = jobs]_vars

\* C5 witness: insert mode with text typed and no model selected (the selected
\* model was deleted): the state Enter leaves exactly as it finds it.
C5_Witness ==
    /\ state.current_tab = "Chat" /\ state.input_mode
    /\ state.input_text # <<>> /\ state.selected_model = None
    /\ mainPc = "loop"

\* C9: Enter in the search view dispatches a resolve job exactly when
\* is_searching is false, and sets is_searching in the same step; at most one
\* search job is outstanding, is_searching is true exactly while one is, and the
\* job's single write replaces search_results by its outcome and clears the flag.
C9_SingleSearchJob ==
    /\ [](SearchJobs <= 1 /\ (state.is_searching <=> SearchJobs = 1))
    /\ [][(state.current_tab = "Search" /\ KeyEvent(Key("Enter"))) =>
            IF state.is_searching
            THEN jobs' = jobs /\ state' = state
            ELSE /\ jobs' = jobs (+) One(NewJob("search", "", state.search_query))
                 /\ state' = [state EXCEPT !.is_searching = TRUE]]_vars
    /\ [][\A j \in BagToSet(jobs) : SearchWrite(j) =>
            /\ state' = [state EXCEPT !.search_results = IF j.ok THEN j.data ELSE <<>>,
                                      !.is_searching = FALSE]
            /\ jobs' = jobs (-) One(j)]_vars

\* C9 witness: an earlier search job has replaced the results and a new one is
\* outstanding, with the flag set.
C9_Witness ==
    /\ state.is_searching /\ SearchJobs = 1
    /\ state.search_results = <<"x1", "x2">>
    /\ \E j \in BagToSet(jobs) : j.kind = "search" /\ j.pc = "write" /\ j.data = <<"x1">>

\* The status messages that report job j's failure with its error text.
FailureReports(j) ==
    CASE j.kind = "chat" -> {Some("Error: " \o j.err), Some("Chat failed: " \o j.err)}
      [] j.kind = "delete" -> {Some("Delete failed: " \o j.err)}
      [] j.kind = "refresh" ->
            {Some("Failed to connect: " \o j.err \o ". Make sure Ollama is running.")}
      [] j.kind = "search" -> {Some("Search failed: " \o j.err), Some("Error: " \o j.err)}

\* C10 (as claimed): a job of any kind (chat, delete, model listing, search) whose
\* external call failed writes, when it completes, a status message that names
\* the operation and carries the error text.
C10_FailureWritesStatus ==
    [][\A j \in BagToSet(jobs) :
        (/\ ~j.ok
         /\ (ChatWrite(j) \/ DeleteWrite(j) \/ RefreshWrite(j) \/ SearchWrite(j))) =>
            state'.status_message \in FailureReports(j)]_vars

\* ------------------------------------------------------------------ decoder claims
\* What the claims say of a response body, computed from the body alone.
IsFrame(l) == l.kind = "json" /\ BareFields \subseteq l.fields    \* a frame as the protocol words it
IsResponse(l) == l.kind = "json" /\ AllFields \subseteq l.fields  \* a complete ChatResponse
IsSkipped(l) == l.kind \in {"blank", "garbage"} \/ (l.kind = "json" /\ ~IsResponse(l))

\* The body up to and including its first line in the set Stop.
RECURSIVE UpTo(_, _)
UpTo(ls, Stop) ==
    IF ls = <<>> THEN <<>>
    ELSE IF Head(ls) \in Stop THEN <<Head(ls)>>
         ELSE <<Head(ls)>> \o UpTo(Tail(ls), Stop)

\* The texts after each line of the set Of: every prefix's concatenation.
RECURSIVE RunningTexts(_, _, _)
RunningTexts(ls, acc, Of) ==
    IF ls = <<>> THEN <<>>
    ELSE IF Head(ls) \in Of
         THEN <<acc \o Head(ls).text>> \o RunningTexts(Tail(ls), acc \o Head(ls).text, Of)
         ELSE RunningTexts(Tail(ls), acc, Of)

RECURSIVE Concat(_, _)
Concat(ls, Of) ==
    IF ls = <<>> THEN ""
    ELSE (IF Head(ls) \in Of THEN Head(ls).text ELSE "") \o Concat(Tail(ls), Of)

Frames == {l \in LineSet : IsFrame(l)}
Responses == {l \in LineSet : IsResponse(l)}
DoneResponses == {l \in Responses : l.done}

RECURSIVE Strip(_)
Strip(ls) ==
    IF ls = <<>> THEN <<>>
    ELSE IF IsSkipped(Head(ls)) THEN Strip(Tail(ls)) ELSE <<Head(ls)>> \o Strip(Tail(ls))

DoneResponse(l) == IsResponse(l) /\ l.done
DoneFrame(l) == IsFrame(l) /\ l.done
NoReadError(ls) == \A i \in 1..Len(ls) : ls[i].kind # "ioerr"
Consumed == SubSeq(lines, 1, pos)
Finished == dpc \in {"ok", "err"}

SpecHe == Frame(BareFields, "He", FALSE)       \* {"message":{"content":"He"},"done":false}
SpecLlo == Frame(BareFields, "llo", TRUE)      \* {"message":{"content":"llo"},"done":true}
FullHe == Frame(AllFields, "He", FALSE)
FullLlo == Frame(AllFields, "llo", TRUE)

\* C6 (as claimed): the callback is invoked once per frame, in order, with the
\* concatenation of the fragments so far, nothing is consumed after the first
\* frame with done=true, and the two frames of the example, as written, give the
\* calls "He" and "Hello".
C6_CallbackPerFrame ==
    /\ calls = RunningTexts(Consumed, "", Frames)
    /\ \A i \in 1..(pos - 1) : ~DoneFrame(lines[i])
    /\ (Finished /\ lines = <<SpecHe, SpecLlo>>) => calls = <<"He", "Hello">>

\* C6 (amended): the callback is invoked once per line that deserializes as a
\* ChatResponse (a JSON object with model, message.role, message.content and
\* done), in order, with the concatenation of the fragments so far, and nothing
\* is consumed after the first such frame with done=true.  The two frames of the
\* example give "He" and then "Hello" when they carry model and message.role;
\* exactly as written they lack both, are skipped, and the callback is not invoked.
C6_CallbackPerResponse ==
    /\ calls = RunningTexts(Consumed, "", Responses)
    /\ \A i \in 1..(pos - 1) : ~DoneResponse(lines[i])
    /\ (Finished /\ lines = <<FullHe, FullLlo>>) => (calls = <<"He", "Hello">> /\ pos = 2)
    /\ (Finished /\ lines = <<SpecHe, SpecLlo>>) => calls = <<>>

\* C6 witness: the two complete frames, followed by a third that is not read.
C6_Witness ==
    /\ lines = <<FullHe, FullLlo, FullHe>>
    /\ dpc = "ok" /\ pos = 2 /\ calls = <<"He", "Hello">>

C8_EndWithoutDone ==
    (/\ Finished /\ NoReadError(lines)
     /\ \A i \in 1..Len(lines) : ~DoneResponse(lines[i])) =>
        /\ dpc = "ok" /\ pos = Len(lines)
        /\ content = Concat(lines, Responses)

\* C8 witness: a body of two frames, neither done: Ok("HeHe").
C8_Witness ==
    /\ lines = <<FullHe, FullHe>>
    /\ dpc = "ok" /\ content = "HeHe"

\* ------------------------------------------------------------------ lock claims
HoldsLock(j) == j.pc \in {"call_locked", "write_locked", "status_locked"}
LockedJobs == SumCopies(jobs, {j \in BagToSet(jobs) : HoldsLock(j)})

\* C11: no thread holds the lock while a network call of its own is outstanding:
\* the interactive thread holds it exactly while it paints a frame or handles a
\* key press (never during the startup listing), a job holds it only after its
\* external call has returned, at most one thread holds it, and the job's write
\* releases it.
C11_NoLockAcrossCall ==
    /\ [](/\ lock = "main" <=> mainPc \in {"painting", "key"}
          /\ lock = "job" <=> LockedJobs = 1
          /\ LockedJobs <= 1
          /\ \A j \in BagToSet(jobs) : HoldsLock(j) => j.pc # "call_locked")
    /\ [][\A j \in BagToSet(jobs) : JobWrite(j) => lock' = "free"]_vars

\* C11 witness: a chat job whose call has returned holds the lock while the
\* interactive thread is blocked waiting for input.
C11_Witness ==
    /\ lock = "job" /\ mainPc = "read"
    /\ \E j \in BagToSet(jobs) : j.kind = "chat" /\ j.pc = "write_locked"

\* C12 (as claimed): the interactive thread is never inside a network call.
C12_MainNeverInCall == mainPc # "startup_call"

\* C13 (as claimed): every job takes the lock once, after its external call, and
\* its job is over when it releases the lock: no job is ever between two
\* critical sections, where another thread could see the first write without
\* the second.
C13_OneCriticalSection ==
    /\ [][\A j \in BagToSet(jobs) : JobLock(j) => j.pc = "write"]_vars
    /\ [][\A j \in BagToSet(jobs) : JobWrite(j) => jobs' = jobs (-) One(j)]_vars

\* C14 (as claimed): after a job has written to the shared state, a frame is
\* painted that shows the write, whether or not an input event arrives.
C14_WriteEventuallyPainted == dirty ~> ~dirty

\* ------------------------------------------------------------------ key claims
StaleModelCursor ==
    /\ state.current_tab = "Models"
    /\ ~(Unwrap(state.model_list_state) < Len(state.models))
StaleChatCursor ==
    /\ state.current_tab = "Chat" /\ ~state.input_mode
    /\ ~(Unwrap(state.chat_scroll_state) < Len(state.messages))

\* C15: the delete key, pressed in the model list or in the conversation view
\* (normal mode) while the view's cursor is not below the length of its list,
\* changes no state and dispatches no job.
C15_StaleDeleteNoOp ==
    [][((StaleModelCursor \/ StaleChatCursor) /\ KeyEvent(Char("d"))) =>
            (state' = state /\ jobs' = jobs)]_vars

\* C15 witness: the conversation view in normal mode with its only turn deleted
\* (cursor 0, no turn left), after a delete job left the model cursor at index 1
\* of a list of one model.
C15_Witness ==
    /\ state.current_tab = "Chat" /\ ~state.input_mode /\ mainPc = "loop"
    /\ state.messages = <<>> /\ state.chat_scroll_state = Some(0) /\ state.is_loading
    /\ state.models = <<"m1">> /\ state.model_list_state = Some(1)

\* C16 (as claimed): Esc pressed in the conversation view in insert mode leaves
\* insert mode and the program keeps running; Esc pressed in normal mode or in
\* another view ends the program.
C16_EscLeavesInsertMode ==
    [][KeyEvent(Key("Esc")) =>
            IF state.current_tab = "Chat" /\ state.input_mode
            THEN ~state'.input_mode /\ mainPc' = "loop"
            ELSE mainPc' = "exited"]_vars

\* ------------------------------------------------------------------ catalog claims
\* What the claim says of a line, read off the line alone: the href values of
\* its anchors (<a href="..."), and which of them name an entry.
AnchorHrefs(line) ==
    {Unwrap(href_of(SubSeq(line, i + 2, Len(line)))) :
        i \in {k \in 1..(Len(line) - 1) :
                /\ line[k] = ATag /\ line[k + 1] = Href
                /\ IsSome(href_of(SubSeq(line, k + 2, Len(line))))}}
IsEntryHref(h) ==
    /\ Len(h) >= 2 /\ h[1] = Library
    /\ \A i \in 2..Len(h) : ~has_slash(h[i]) /\ ~has_qmark(h[i])
Entries(line) == {Tail(h) : h \in {x \in AnchorHrefs(line) : IsEntryHref(x)}}
Yielded == IF IsSome(found) THEN {Unwrap(found)} ELSE {}

\* C17 (as claimed): a scanned line yields the identifier N exactly when it holds
\* an anchor whose href is /library/N, N non-empty, with no further path segment
\* and no query string; href="/library/llama3" yields llama3, and
\* href="/library/llama3/tags" and href="/library/llama3?x=1" yield nothing.
C17_ExtractsExactly ==
    spc = "done" =>
        /\ Yielded = Entries(page[1])
        /\ page[1] = Anchor(<<Library, "llama3">>) => found = Some(<<"llama3">>)
        /\ page[1] = Anchor(<<Library, "llama3", Slash, "llama3">>) => found = None
        /\ page[1] = Anchor(<<Library, "llama3", QMark, "llama3">>) => found = None

\* The catalog resolve has returned; the cap that applies to it.
Resolved == spc \in {"searched", "popular"}
Cap == IF spc = "popular" THEN PopularCap ELSE SearchCap

\* The least index of a line of the page that yields the name (0: none).
first_seen(entryAt, kept, name) ==
    LET at == {k \in kept : entryAt[k] = Some(name)} IN
    IF at = {} THEN 0 ELSE CHOOSE k \in at : \A m \in at : k <= m

\* C18: the list a catalog resolve returns holds no identifier twice, holds
\* entries of the page in the order in which they are first seen, leaving out
\* none that comes before one it holds, and has at most 50 entries for a keyword
\* search and at most 30 for the popular listing.
C18_UniqueOrderedCapped ==
    Resolved =>
        \A entryAt \in {[i \in 1..Len(page) |-> scan_line(page[i])]} :
        \A kept \in {{i \in 1..Len(page) :
                        IsSome(entryAt[i]) /\ keeps(Unwrap(entryAt[i]), keyword)}} :
        \A names \in {{found[i].name : i \in 1..Len(found)}} :
        \A first \in {[i \in 1..Len(found) |-> first_seen(entryAt, kept, found[i].name)]} :
            /\ Len(found) <= Cap
            /\ Cardinality(names) = Len(found)
            /\ \A i \in 1..Len(found) : first[i] # 0
            /\ \A i \in 1..(Len(found) - 1) : first[i] < first[i + 1]
            /\ \A k \in kept :
                    \/ Unwrap(entryAt[k]) \in names
                    \/ Len(found) = Cap /\ first[Len(found)] < k

\* C18 witness: a keyword search on a page that lists more than 50 matching
\* entries, each of them twice, returned 50 entries.
C18_Witness ==
    /\ spc = "searched" /\ keyword = <<"a">>
    /\ Len(found) = SearchCap
    /\ Len(page) > 3 * SearchCap

\* C19 (as claimed): in the search view a character key appends its character to
\* the query and leaves the cursor where it is, and Backspace removes the last
\* character of the query and leaves the cursor where it is.
C19_CharKeysEditQuery ==
    /\ [][\A c \in CmdChars \cup TypedChars :
            (state.current_tab = "Search" /\ KeyEvent(Char(c))) =>
                /\ state'.search_query = Append(state.search_query, c)
                /\ state'.search_list_state = state.search_list_state]_vars
    /\ [][(state.current_tab = "Search" /\ KeyEvent(Key("Backspace"))) =>
                /\ state'.search_query = Pop(state.search_query)
                /\ state'.search_list_state = state.search_list_state]_vars

\* C20 (as claimed): a delete job removes a model from the list only when the
\* server deleted it: a job that completes while the server still has the model
\* leaves models and selected_model unchanged and writes a delete-failed message.
C20_RemovedOnlyOnSuccess ==
    [][\A j \in BagToSet(jobs) :
        (DeleteWrite(j) /\ \E i \in 1..Len(serverModels) : serverModels[i] = j.name) =>
            /\ state'.models = state.models
            /\ state'.selected_model = state.selected_model
            /\ state'.status_message = Some("Delete failed: " \o ErrText)]_vars

\* C21 (as claimed): a refresh job whose listing failed to reach the server
\* finishes with the connection-failure message as the status message; it does
\* not write "Models refreshed", which is for a list the response replaced.
FailedToConnect == Some("Failed to connect: " \o ErrText \o ". Make sure Ollama is running.")

C21_FailureMessagePersists ==
    [][\A j \in BagToSet(jobs) :
        (RefreshStatus(j) /\ ~j.ok) => state'.status_message = FailedToConnect]_vars

\* C22: job results are committed in completion order with no fencing: a refresh
\* job writes the list it fetched even when that list is no longer the server's,
\* so after a delete job removed M and wrote, the refresh job's write puts M back.
Has(list, name) == \E i \in 1..Len(list) : list[i] = name

C22_StaleRefreshOverwrites ==
    [][\A j \in BagToSet(jobs) :
        (RefreshWrite(j) /\ j.ok /\ j.data # serverModels) =>
            /\ state'.models = j.data
            /\ \A m \in {"m1", "m2"} :
                (Has(j.data, m) /\ ~Has(state.models, m)) => Has(state'.models, m)]_vars

\* The delete job for m1 succeeded and wrote; the refresh job wrote after it.
C22_Witness ==
    /\ jobs = NoJobs
    /\ ~Has(serverModels, "m1")
    /\ Has(state.models, "m1")
    /\ state.status_message = Some("Models refreshed")

\* C23 (as claimed): is_loading is true exactly when at least one chat job has
\* been dispatched and has not yet written its outcome.
C23_LoadingIffChatOutstanding ==
    state.is_loading <=> Outstanding(jobs, "chat") > 0

\* C24: once status_message is set, no key event and no job completion resets
\* it to none: every step leaves a message in place, so the footer shows that
\* message and never again the Loading indicator or the key hints.
Indicators == {Loading, InsertHints, NormalHints, ModelsHints, SearchHints}

C24_StatusNeverCleared ==
    [][IsSome(state.status_message) =>
            /\ IsSome(state'.status_message)
            /\ ui_footer(state') = Unwrap(state'.status_message)
            /\ ui_footer(state') \notin Indicators]_vars

\* A chat job is outstanding and the footer still shows an earlier refresh's message.
C24_Witness ==
    /\ state.is_loading
    /\ Outstanding(jobs, "chat") = 1
    /\ state.status_message = Some("Models refreshed")
    /\ ui_footer(state) = "Models refreshed"

\* C25 (as claimed): the conversation view is in insert mode only if a model is
\* selected: input_mode is never true while selected_model is none.
C25_InsertModeNeedsModel ==
    state.input_mode => IsSome(state.selected_model)

====
